---- MODULE Spec2Model ----
(***************************************************************************)
(* client/core.go of hlf-sdk-go: the construction cascade NewCore and the  *)
(* two memoising accessors core.Channel and core.Chaincode.                *)
(*                                                                         *)
(* Two specifications share the fields of the core struct:                 *)
(*   SpecNewCore  one run of NewCore, stage by stage, from its arguments   *)
(*                to its return values;                                    *)
(*   Spec         goroutines calling Channel and Chaincode on a Core that  *)
(*                NewCore returned.                                        *)
(***************************************************************************)
EXTENDS Integers, Sequences, FiniteSets, TLC

\* ------------------------------------------------------------------ bounds
MaxCalls == 1        \* calls one goroutine makes
MaxEndpoints == 2    \* orderer endpoints one discovery answer carries
MaxAddrs == 2        \* host addresses of one endpoint
MaxOpts == 2         \* options given to NewCore
MaxOrgs == 2         \* organisations in config.MSP
MaxEndorsers == 1    \* endorsers of one organisation
MaxOrderers == 1     \* entries of config.Orderers
MaxLocalPeers == 1   \* peers the gossip provider reports as local

Threads == {"g1", "g2"}
Names == {"mychannel", "other"}

\* ------------------------------------------------------------- Go values
\* nil of every pointer, interface and error type
Nil == [kind |-> "nil"]

\* an unlocked sync.Mutex
Unlocked == "unlocked"

\* the outcome of a call that panicked instead of returning
Panicked == [kind |-> "panic"]

SeqsUpTo(S, n) == UNION {[1..k -> S] : k \in 0..n}

VARIABLES
    \* --- fields of the core struct
    config, cs, identity, peerPool, orderer, discoveryProvider, fetcher,
    channels, channelMx, chaincodes, chaincodeMx,
    \* --- NewCore: arguments, position, locals, results, calls made
    stage, opts, applied, identityArg, err, retCore, retErr, failedAt, log,
    \* --- Channel / Chaincode: per goroutine position and locals
    pc, op, name, discChannel, grpcConnCfgs, ordConn, ord, steps, ncalls,
    \* --- allocation of handles and history of the calls
    nextId, lookups, created, returned, resolved, panicked, returns

coreVars == <<config, cs, identity, peerPool, fetcher>>
newVars == <<stage, opts, applied, identityArg, err, retCore, retErr, failedAt, log>>
cacheVars == <<channels, channelMx, chaincodes, chaincodeMx>>
localVars == <<pc, op, name, discChannel, grpcConnCfgs, ordConn, ord, steps, ncalls>>
histVars == <<nextId, lookups, created, returned, resolved, panicked, returns>>
vars == <<coreVars, orderer, discoveryProvider, newVars, cacheVars, localVars, histVars>>

\* =========================================================================
\* Values exchanged with the collaborators
\* =========================================================================

\* api.HostAddress number j of endpoint number i: every address is distinct
\* and carries its own TLS settings
HostAddress(i, j) == [Address |-> <<"host", i, j>>, TLSSettings |-> <<"tls", i, j>>]

\* api.HostEndpoint number i with n addresses
HostEndpoint(i, n) == [MspID |-> <<"msp", i>>, HostAddresses |-> [j \in 1..n |-> HostAddress(i, j)]]

\* the answers of ChannelDiscoverer.Orderers()
OrdererLists ==
    {[i \in DOMAIN counts |-> HostEndpoint(i, counts[i])] : counts \in SeqsUpTo(0..MaxAddrs, MaxEndpoints)}

\* the outcomes of DiscoveryProvider.Channel(ctx, name)
DiscoveryErrors == {"discovery failed", "context canceled"}
DiscoveryResults ==
    {[kind |-> "error", err |-> e] : e \in DiscoveryErrors}
        \cup {[kind |-> "channel", orderers |-> os] : os \in OrdererLists}

\* a *grpc.ClientConn built over the given descriptors
Conn(descs) == [kind |-> "conn", descs |-> descs]

\* an api.Orderer wrapping conn; owner tells the handles apart by reference
Orderer(owner, conn) == [kind |-> "orderer", owner |-> owner, conn |-> conn]

\* an orderer given by an option
OptionOrderer == Orderer("option", Conn(<<[Host |-> "orderer.option", Tls |-> "none"]>>))

\* a discovery provider given by an option
OptionProvider == [kind |-> "provider", type |-> "option"]


\* =========================================================================
\* core.Channel and core.Chaincode
\* =========================================================================

\* sync.Mutex.Lock returns only when nobody holds the mutex
CanLockAlways(mx) == TRUE
CanLockNever(mx) == FALSE
CanLock(mx) == mx = Unlocked

\* `if len(discChannel.Orderers()) > 0`
HasOrderers(discovered) == Len(discovered.orderers) > 0

\* `config.ConnectionConfig{Host: hostAddr.Address, Tls: hostAddr.TLSSettings}`
grpcCfgNoTls(hostAddr) == [Host |-> hostAddr.Address, Tls |-> <<"tls", 0, 0>>]
grpcCfg(hostAddr) == [Host |-> hostAddr.Address, Tls |-> hostAddr.TLSSettings]

\* the inner loop over one endpoint's HostAddresses
RECURSIVE HostConfigs(_)
HostConfigs(hostAddresses) ==
    IF hostAddresses = <<>> THEN <<>>
    ELSE <<grpcCfg(Head(hostAddresses))>> \o HostConfigs(Tail(hostAddresses))

\* the outer loop: every endpoint's addresses appended in turn
RECURSIVE GrpcConnCfgs(_)
GrpcConnCfgs(orderers) ==
    IF orderers = <<>> THEN <<>>
    ELSE (IF Len(Head(orderers).HostAddresses) > 0
          THEN HostConfigs(Head(orderers).HostAddresses)
          ELSE <<>>) \o GrpcConnCfgs(Tail(orderers))

\* `if ord == nil { ord = c.orderer }`
BoundOrdererNoDefault(o, default) == o
BoundOrderer(o, default) == IF o = Nil THEN default ELSE o

\* channel.NewCore(mspId, name, peerPool, ord, discoveryProvider, ...)
NewChannel(id, n, o) == [kind |-> "channel", id |-> id, name |-> n, orderer |-> o]

\* chaincode.NewCorePackage(name, lscc, fetcher, orderer, identity)
NewCorePackageAsChannel(id, n, o) == [kind |-> "channel", id |-> id, name |-> n, orderer |-> o]
NewCorePackageNoOrderer(id, n, o) == [kind |-> "chaincode", id |-> id, name |-> n, orderer |-> Nil]
NewCorePackage(id, n, o) == [kind |-> "chaincode", id |-> id, name |-> n, orderer |-> o]

\* a goroutine may start another call
Ready(t) == pc[t] = "idle" /\ ncalls[t] < MaxCalls

\* a call is entered with its argument
Enter(t, o, n, at) ==
    /\ pc' = [pc EXCEPT ![t] = at]
    /\ op' = [op EXCEPT ![t] = o]
    /\ name' = [name EXCEPT ![t] = n]
    /\ ncalls' = [ncalls EXCEPT ![t] = @ + 1]
    /\ UNCHANGED <<discChannel, grpcConnCfgs, ordConn, ord, steps>>

\* the call returns value v, or panics when v is Panicked: its frame is gone,
\* and what it returned is remembered under its name
Return(t, v) ==
    /\ pc' = [pc EXCEPT ![t] = "idle"]
    /\ op' = [op EXCEPT ![t] = "none"]
    /\ name' = [name EXCEPT ![t] = "none"]
    /\ discChannel' = [discChannel EXCEPT ![t] = Nil]
    /\ grpcConnCfgs' = [grpcConnCfgs EXCEPT ![t] = <<>>]
    /\ ordConn' = [ordConn EXCEPT ![t] = Nil]
    /\ ord' = [ord EXCEPT ![t] = Nil]
    /\ steps' = [steps EXCEPT ![t] = <<>>]
    /\ IF v = Panicked
       THEN /\ panicked' = [panicked EXCEPT ![<<op[t], name[t]>>] = TRUE]
            /\ UNCHANGED <<returned, returns>>
       ELSE /\ returned' = [returned EXCEPT ![<<op[t], name[t]>>] = @ \cup {v}]
            /\ returns' = [returns EXCEPT ![<<op[t], name[t]>>] = @ + 1]
            /\ UNCHANGED panicked

\* Channel(name) is called: the goroutine reaches c.channelMx.Lock()
ChannelCall(t, n) ==
    /\ Ready(t)
    /\ Enter(t, "Channel", n, "chLock")
    /\ UNCHANGED <<coreVars, orderer, discoveryProvider, newVars, cacheVars, histVars>>

\* c.channelMx.Lock()
ChannelLock(t) ==
    /\ pc[t] = "chLock"
    /\ CanLock(channelMx)
    /\ channelMx' = t
    /\ pc' = [pc EXCEPT ![t] = "chGet"]
    /\ UNCHANGED <<coreVars, orderer, discoveryProvider, newVars, channels, chaincodes,
                   chaincodeMx, op, name, discChannel, grpcConnCfgs, ordConn, ord,
                   steps, ncalls, histVars>>

\* `ch, ok := c.channels[name]`: a hit returns ch and the deferred Unlock runs
ChannelGet(t) ==
    /\ pc[t] = "chGet"
    /\ IF channels[name[t]] # Nil
       THEN /\ Return(t, channels[name[t]])
            /\ channelMx' = Unlocked
       ELSE /\ pc' = [pc EXCEPT ![t] = "chDiscovery"]
            /\ UNCHANGED <<op, name, discChannel, grpcConnCfgs, ordConn, ord, steps,
                           returned, panicked, returns, channelMx>>
    /\ UNCHANGED <<coreVars, orderer, discoveryProvider, newVars, channels, chaincodes,
                   chaincodeMx, ncalls, nextId, lookups, created, resolved>>

\* `discChannel, err := c.discoveryProvider.Channel(c.ctx, name)` and the branch on
\* its result. A method call on the nil interface panics: the deferred Unlock runs
\* and nothing is returned or cached.
ChannelDiscovery(t) ==
    /\ pc[t] = "chDiscovery"
    /\ IF discoveryProvider = Nil
       THEN /\ Return(t, Panicked)
            /\ channelMx' = Unlocked
            /\ UNCHANGED lookups
       ELSE \E r \in DiscoveryResults :
            /\ discChannel' = [discChannel EXCEPT ![t] = r]
            /\ lookups' = [lookups EXCEPT ![name[t]] = @ + 1]
            /\ steps' = [steps EXCEPT ![t] = Append(@, "discovery")]
            /\ IF r.kind = "channel" /\ HasOrderers(r)
               THEN /\ grpcConnCfgs' = [grpcConnCfgs EXCEPT ![t] = GrpcConnCfgs(r.orderers)]
                    /\ pc' = [pc EXCEPT ![t] = "chConnect"]
               ELSE /\ pc' = [pc EXCEPT ![t] = "chNew"]
                    /\ UNCHANGED grpcConnCfgs
            /\ UNCHANGED <<op, name, ordConn, ord, returned, panicked, returns, channelMx>>
    /\ UNCHANGED <<coreVars, orderer, discoveryProvider, newVars, channels, chaincodes,
                   chaincodeMx, ncalls, nextId, created, resolved>>

\* `ordConn, err := util.NewGRPCConnectionFromConfigs(c.ctx, c.logger, grpcConnCfgs...)`:
\* a failure is logged and the function goes on to the orderer constructor
ChannelConnect(t) ==
    /\ pc[t] = "chConnect"
    /\ \E c \in {Nil, Conn(grpcConnCfgs[t])} :
        ordConn' = [ordConn EXCEPT ![t] = c]
    /\ steps' = [steps EXCEPT ![t] = Append(@, "connect")]
    /\ pc' = [pc EXCEPT ![t] = "chOrderer"]
    /\ UNCHANGED <<coreVars, orderer, discoveryProvider, newVars, cacheVars, op, name,
                   discChannel, grpcConnCfgs, ord, ncalls, histVars>>

\* `if ord, err = orderer.NewFromGRPC(c.ctx, ordConn); err != nil`: the constructor
\* is given whatever ordConn holds, and may succeed or fail with it
ChannelOrderer(t) ==
    /\ pc[t] = "chOrderer"
    /\ \E o \in {Nil, Orderer(name[t], ordConn[t])} :
        ord' = [ord EXCEPT ![t] = o]
    /\ steps' = [steps EXCEPT ![t] = Append(@, "orderer")]
    /\ pc' = [pc EXCEPT ![t] = "chNew"]
    /\ UNCHANGED <<coreVars, orderer, discoveryProvider, newVars, cacheVars, op, name,
                   discChannel, grpcConnCfgs, ordConn, ncalls, histVars>>

\* the default orderer when none was built, channel.NewCore, the insertion into
\* c.channels, the return and the deferred Unlock
ChannelNew(t) ==
    /\ pc[t] = "chNew"
    /\ LET ch == NewChannel(nextId, name[t], BoundOrderer(ord[t], orderer))
       IN /\ channels' = [channels EXCEPT ![name[t]] = ch]
          /\ Return(t, ch)
    /\ nextId' = nextId + 1
    /\ created' = [created EXCEPT ![<<"Channel", name[t]>>] = @ + 1]
    /\ resolved' = [resolved EXCEPT ![name[t]] =
                        [discChannel |-> discChannel[t], steps |-> steps[t],
                         ordConn |-> ordConn[t], ord |-> ord[t]]]
    /\ channelMx' = Unlocked
    /\ UNCHANGED <<coreVars, orderer, discoveryProvider, newVars, chaincodes, chaincodeMx,
                   ncalls, lookups>>

\* Chaincode(name) is called: the goroutine reaches c.chaincodeMx.Lock()
ChaincodeCall(t, n) ==
    /\ Ready(t)
    /\ Enter(t, "Chaincode", n, "ccLock")
    /\ UNCHANGED <<coreVars, orderer, discoveryProvider, newVars, cacheVars, histVars>>

\* c.chaincodeMx.Lock()
ChaincodeLock(t) ==
    /\ pc[t] = "ccLock"
    /\ CanLock(chaincodeMx)
    /\ chaincodeMx' = t
    /\ pc' = [pc EXCEPT ![t] = "ccGet"]
    /\ UNCHANGED <<coreVars, orderer, discoveryProvider, newVars, channels, chaincodes,
                   channelMx, op, name, discChannel, grpcConnCfgs, ordConn, ord,
                   steps, ncalls, histVars>>

\* the lookup in c.chaincodes, NewCorePackage on a miss, the return and the
\* deferred Unlock
ChaincodeGet(t) ==
    /\ pc[t] = "ccGet"
    /\ IF chaincodes[name[t]] # Nil
       THEN /\ Return(t, chaincodes[name[t]])
            /\ UNCHANGED <<chaincodes, nextId, created>>
       ELSE LET cc == NewCorePackage(nextId, name[t], orderer)
            IN /\ chaincodes' = [chaincodes EXCEPT ![name[t]] = cc]
               /\ Return(t, cc)
               /\ nextId' = nextId + 1
               /\ created' = [created EXCEPT ![<<"Chaincode", name[t]>>] = @ + 1]
    /\ chaincodeMx' = Unlocked
    /\ UNCHANGED <<coreVars, orderer, discoveryProvider, newVars, channels, channelMx,
                   ncalls, lookups, resolved>>

\* =========================================================================
\* NewCore
\* =========================================================================

\* errors.New / errors.Errorf / fmt.Errorf: a fresh error with its arguments
Errorf(msg, args) == [kind |-> "error", msg |-> msg, args |-> args, cause |-> Nil]

\* errors.Wrap of github.com/pkg/errors: nil when the wrapped error is nil
Wrap(e, msg) ==
    IF e = Nil THEN Nil ELSE [kind |-> "error", msg |-> msg, args |-> <<>>, cause |-> e]

ErrEmptyConfig == Errorf("api.ErrEmptyConfig", <<>>)

\* `errors.New("identity wasn't provided")`
ErrMissingIdentity == Errorf("identity wasn't provided", <<>>)

\* one call NewCore made to a collaborator (or one line it logged)
Call(c, a) == [call |-> c, arg |-> a]

\* the discovery types the switch knows
LocalConfigServiceDiscoveryType == "local"
GossipServiceDiscoveryType == "gossip"

\* ---- configuration -------------------------------------------------------
CryptoTypes == {"", "ecdsa", "unregistered"}
DiscoveryTypes ==
    {"", LocalConfigServiceDiscoveryType, GossipServiceDiscoveryType, "consul"}

\* config.Discovery: the bootstrap connection is read by the gossip case only
DiscoveryConfigs ==
    {[Type |-> ty, Connection |-> Nil] : ty \in DiscoveryTypes}
        \cup {[Type |-> GossipServiceDiscoveryType,
               Connection |-> [Host |-> <<"bootstrap">>, Tls |-> Nil]]}

\* the connection descriptor of endorser j of organisation i
EndorserConfig(i, j) == [Host |-> <<"peer", i, j>>, Tls |-> <<"tls", i, j>>]

\* config.MSP: organisation i with its endorsers
MspConfigs ==
    {[i \in DOMAIN counts |->
        [Name |-> <<"msp", i>>,
         Endorsers |-> [j \in 1..counts[i] |-> EndorserConfig(i, j)]]]
     : counts \in SeqsUpTo(0..MaxEndorsers, MaxOrgs)}

\* config.Orderers
OrdererConfigs ==
    {[i \in 1..n |-> [Host |-> <<"orderer", i>>, Tls |-> <<"tls", i>>]] : n \in 0..MaxOrderers}

Configs ==
    [Crypto : CryptoTypes, Discovery : DiscoveryConfigs, MSP : MspConfigs,
     Orderers : OrdererConfigs]

\* ---- options -------------------------------------------------------------
OptKinds == {"WithConfig", "WithCrypto", "WithPeerPool", "WithDiscovery", "WithOrderer"}

OptionSuite == [kind |-> "suite", type |-> "option"]
OptionPool == [kind |-> "pool", owner |-> "option", peers |-> <<>>]

\* the error a failing option returns
OptionError(o) == Errorf("option failed", <<o>>)

\* ---- collaborators -------------------------------------------------------
\* crypto.GetSuite(type, options): the suite registered under the type name
GetSuite(ty) ==
    IF ty = "ecdsa" THEN [suite |-> [kind |-> "suite", type |-> ty], err |-> Nil]
    ELSE [suite |-> Nil, err |-> Errorf("api.ErrUnsupportedCryptoSuite", <<ty>>)]

\* identity.GetSigningIdentity(core.cs)
SigningIdentity(suite) == [kind |-> "signingIdentity", suite |-> suite]

\* `if identity == nil`
IdentityMissingNever(id) == FALSE
IdentityMissing(id) == id = Nil

\* pool.New(core.ctx, core.logger)
NewPool == [kind |-> "pool", owner |-> "NewCore", peers |-> <<>>]

\* a peer registered under an organisation: peerPool.Add(mspID, p, strategy)
Peer(msp, cfg) == [msp |-> msp, host |-> cfg.Host]

\* the (organisation, endorser) pairs in the order the two nested loops visit them
RECURSIVE EndorserPairs(_)
EndorserPairs(msps) ==
    IF msps = <<>> THEN <<>>
    ELSE [j \in 1..Len(Head(msps).Endorsers) |-> Peer(Head(msps).Name, Head(msps).Endorsers[j])]
            \o EndorserPairs(Tail(msps))

\* the (organisation, address) pairs of the peers LocalPeers reported
RECURSIVE LocalPeerPairs(_)
LocalPeerPairs(peers) ==
    IF peers = <<>> THEN <<>>
    ELSE [j \in 1..Len(Head(peers).HostAddresses) |->
            Peer(Head(peers).MspID,
                 [Host |-> Head(peers).HostAddresses[j].Address,
                  Tls |-> Head(peers).HostAddresses[j].TLSSettings])]
            \o LocalPeerPairs(Tail(peers))

\* how a run of the registration loop over pairs can end: after n registrations,
\* all done (fail = "none") or with pair n+1 failing in peer.New or in pool.Add
LoopOutcomes(pairs) ==
    {[n |-> Len(pairs), fail |-> "none"]}
        \cup {[n |-> k, fail |-> f] : k \in 0..(Len(pairs) - 1), f \in {"peer.New", "pool.Add"}}

\* the calls one run of the loop makes
LoopCalls(pairs, out) ==
    LET perPair(i) == <<Call("peer.New", pairs[i].msp), Call("pool.Add", pairs[i].msp)>>
        RECURSIVE upTo(_)
        upTo(k) == IF k = 0 THEN <<>> ELSE upTo(k - 1) \o perPair(k)
    IN upTo(out.n)
        \o (IF out.fail = "none" THEN <<>>
            ELSE IF out.fail = "peer.New" THEN <<Call("peer.New", pairs[out.n + 1].msp)>>
            ELSE perPair(out.n + 1))

\* the error the loop returns, nil when it ran to its end
LoopError(pairs, out) ==
    IF out.fail = "none" THEN Nil
    ELSE IF out.fail = "peer.New"
         THEN Errorf("failed to initialize endorsers for MSP", pairs[out.n + 1].msp)
         ELSE Wrap(Errorf("pool.Add failed", pairs[out.n + 1].msp), "failed to add peer to pool")

\* the pool after the loop: the first n pairs were added
AddPeersNone(pool, pairs, out) == pool
AddPeers(pool, pairs, out) ==
    [pool EXCEPT !.peers = @ \o SubSeq(pairs, 1, out.n)]

\* what LocalPeers(ctx).Peers() may return
LocalPeerLists ==
    {[i \in DOMAIN counts |-> HostEndpoint(i, counts[i])] : counts \in SeqsUpTo(0..MaxAddrs, MaxLocalPeers)}

LocalProvider == [kind |-> "provider", type |-> LocalConfigServiceDiscoveryType]
GossipProvider == [kind |-> "provider", type |-> GossipServiceDiscoveryType]
DefaultFetcher == [kind |-> "fetcher", type |-> "local"]

\* `switch core.config.Discovery.Type`: the case taken
DiscoveryCaseEmptyIsLocal(ty) ==
    IF ty \in {LocalConfigServiceDiscoveryType, ""} THEN "local"
    ELSE IF ty = GossipServiceDiscoveryType THEN "gossip"
    ELSE "default"
DiscoveryCaseUnknownIsSkipped(ty) ==
    IF ty = LocalConfigServiceDiscoveryType THEN "local"
    ELSE IF ty = GossipServiceDiscoveryType THEN "gossip"
    ELSE IF ty = "" THEN "default"
    ELSE "none"
DiscoveryCase(ty) ==
    IF ty = LocalConfigServiceDiscoveryType THEN "local"
    ELSE IF ty = GossipServiceDiscoveryType THEN "gossip"
    ELSE "default"

\* the error of the default case
ErrUnknownDiscoveryType(ty) ==
    Errorf("unknown discovery type=%v. available: %v, %v",
           <<ty, LocalConfigServiceDiscoveryType, GossipServiceDiscoveryType>>)

\* `return nil, e`, from the stage NewCore is in
FailGoesOn(e) ==
    /\ retCore' = Nil
    /\ retErr' = e
    /\ failedAt' = stage
    /\ stage' = "cryptoSuite"
Fail(e) ==
    /\ retCore' = Nil
    /\ retErr' = e
    /\ failedAt' = stage
    /\ stage' = "returned"


\* a line NewCore writes through core.logger
Info(msg) == Call("logger.Info", <<msg>>)

\* the *core NewCore returns: its fields are the variables above
Core == [kind |-> "core"]

\* the raw identity handed to NewCore
Identity == [kind |-> "identity"]

runVars == <<cacheVars, localVars, histVars>>

\* what applying option o does to the core: each option sets one field
OptionEffect(o) ==
    /\ IF o = "WithConfig" THEN config' \in Configs ELSE UNCHANGED config
    /\ IF o = "WithCrypto" THEN cs' = OptionSuite ELSE UNCHANGED cs
    /\ IF o = "WithPeerPool" THEN peerPool' = OptionPool ELSE UNCHANGED peerPool
    /\ IF o = "WithDiscovery" THEN discoveryProvider' = OptionProvider
       ELSE UNCHANGED discoveryProvider
    /\ IF o = "WithOrderer" THEN orderer' = OptionOrderer ELSE UNCHANGED orderer

\* one turn of `for _, option := range opts`: the option is applied, or its
\* error is wrapped and returned
NewCoreOption ==
    /\ stage = "options"
    /\ opts # <<>>
    /\ \/ /\ err' = OptionError(Head(opts))
          /\ Fail(Wrap(OptionError(Head(opts)), "failed to apply option"))
          /\ UNCHANGED <<opts, applied, config, cs, peerPool, discoveryProvider, orderer>>
       \/ /\ err' = Nil
          /\ opts' = Tail(opts)
          /\ applied' = Append(applied, Head(opts))
          /\ OptionEffect(Head(opts))
          /\ UNCHANGED <<stage, retCore, retErr, failedAt>>
    /\ UNCHANGED <<identity, fetcher, identityArg, log, runVars>>

\* the loop is over: the context and the logger get their defaults
NewCoreDefaults ==
    /\ stage = "options"
    /\ opts = <<>>
    /\ stage' = "cryptoSuite"
    /\ UNCHANGED <<coreVars, orderer, discoveryProvider, opts, applied, identityArg, err,
                   retCore, retErr, failedAt, log, runVars>>

\* `if core.cs == nil { ... }`
NewCoreCryptoSuite ==
    /\ stage = "cryptoSuite"
    /\ IF cs # Nil
       THEN /\ stage' = "identity"
            /\ UNCHANGED <<config, cs, err, retCore, retErr, failedAt, log>>
       ELSE IF config = Nil
       THEN /\ log' = Append(log, Info("initializing crypto suite"))
            /\ Fail(ErrEmptyConfig)
            /\ UNCHANGED <<config, cs, err>>
       ELSE LET ty == IF config.Crypto = "" THEN "ecdsa" ELSE config.Crypto
                got == GetSuite(ty)
            IN /\ config' = [config EXCEPT !.Crypto = ty]
               /\ cs' = got.suite
               /\ err' = got.err
               /\ log' = log \o <<Info("initializing crypto suite"),
                                  Call("crypto.GetSuite", <<ty>>)>>
               /\ IF got.err # Nil
                  THEN Fail(Wrap(got.err, "failed to initialize crypto suite"))
                  ELSE /\ stage' = "identity"
                       /\ UNCHANGED <<retCore, retErr, failedAt>>
    /\ UNCHANGED <<identity, peerPool, fetcher, orderer, discoveryProvider, opts, applied,
                   identityArg, runVars>>

\* `if identity == nil { return } ; core.identity = identity.GetSigningIdentity(core.cs)`
NewCoreIdentity ==
    /\ stage = "identity"
    /\ IF IdentityMissing(identityArg)
       THEN /\ Fail(ErrMissingIdentity)
            /\ UNCHANGED identity
       ELSE /\ identity' = SigningIdentity(cs)
            /\ stage' = "peerPool"
            /\ UNCHANGED <<retCore, retErr, failedAt>>
    /\ UNCHANGED <<config, cs, peerPool, fetcher, orderer, discoveryProvider, opts, applied,
                   identityArg, err, log, runVars>>

\* `if core.peerPool == nil { ... }`: a new pool, filled from config.MSP
NewCorePeerPool ==
    /\ stage = "peerPool"
    /\ IF peerPool # Nil
       THEN /\ stage' = "discovery"
            /\ UNCHANGED <<peerPool, retCore, retErr, failedAt, log>>
       ELSE IF config = Nil
       THEN /\ log' = Append(log, Info("initializing peer pool"))
            /\ Fail(ErrEmptyConfig)
            /\ UNCHANGED peerPool
       ELSE LET pairs == EndorserPairs(config.MSP)
            IN \E out \in LoopOutcomes(pairs) :
                /\ peerPool' = AddPeers(NewPool, pairs, out)
                /\ log' = log \o <<Info("initializing peer pool"), Call("pool.New", <<>>)>>
                              \o LoopCalls(pairs, out)
                /\ IF out.fail = "none"
                   THEN /\ stage' = "discovery"
                        /\ UNCHANGED <<retCore, retErr, failedAt>>
                   ELSE Fail(LoopError(pairs, out))
    /\ UNCHANGED <<config, cs, identity, fetcher, orderer, discoveryProvider, opts, applied,
                   identityArg, err, runVars>>

\* `case string(discovery.LocalConfigServiceDiscoveryType)`
DiscoveryLocal ==
    /\ UNCHANGED <<config, peerPool>>
    /\ \/ /\ discoveryProvider' = LocalProvider
          /\ err' = Nil
          /\ log' = log \o <<Info("initializing discovery provider"),
                             Call("discovery.NewLocalConfigProvider", <<>>)>>
          /\ stage' = "orderer"
          /\ UNCHANGED <<retCore, retErr, failedAt>>
       \/ /\ discoveryProvider' = Nil
          /\ err' = Errorf("local provider failed", <<>>)
          /\ log' = log \o <<Info("initializing discovery provider"),
                             Call("discovery.NewLocalConfigProvider", <<>>)>>
          /\ Fail(Wrap(err', "failed to initialize discovery provider"))

\* `case string(discovery.GossipServiceDiscoveryType)`
DiscoveryGossip ==
    LET head == <<Info("initializing discovery provider")>>
        tls == <<Call("identity.Serialize", <<>>), Call("tlsMapper.TlsConfigForAddress", <<>>),
                 Call("discovery.NewGossipDiscoveryProvider", <<>>)>>
        mapped == [config EXCEPT !.Discovery.Connection.Tls = <<"tls", "bootstrap">>]
    IN
    /\ UNCHANGED err
    /\ IF config.Discovery.Connection = Nil
       THEN \* err is the function's outer err, nil since the options were applied
            /\ log' = log \o head
            /\ Fail(Wrap(err, "discovery connection config wasn't provided. configure 'discovery.connection'"))
            /\ UNCHANGED <<config, peerPool, discoveryProvider>>
       ELSE \/ /\ log' = log \o head \o <<Call("identity.Serialize", <<>>)>>
               /\ Fail(Wrap(Errorf("serialize failed", <<>>), "failed serialize current identity"))
               /\ UNCHANGED <<config, peerPool, discoveryProvider>>
            \/ /\ log' = log \o head \o tls
               /\ config' = mapped
               /\ discoveryProvider' = Nil
               /\ Fail(Wrap(Errorf("gossip provider failed", <<>>), "failed to initialize discovery provider"))
               /\ UNCHANGED peerPool
            \/ /\ log' = log \o head \o tls \o <<Call("discoveryProvider.LocalPeers", <<>>)>>
               /\ config' = mapped
               /\ discoveryProvider' = GossipProvider
               /\ Fail(Wrap(Errorf("local peers failed", <<>>), "failed to fetch local peers"))
               /\ UNCHANGED peerPool
            \/ \E peers \in LocalPeerLists :
                LET pairs == LocalPeerPairs(peers)
                IN \E out \in LoopOutcomes(pairs) :
                    /\ log' = log \o head \o tls \o <<Call("discoveryProvider.LocalPeers", <<>>)>>
                                  \o LoopCalls(pairs, out)
                    /\ config' = mapped
                    /\ discoveryProvider' = GossipProvider
                    /\ peerPool' = AddPeers(peerPool, pairs, out)
                    /\ IF out.fail = "none"
                       THEN /\ stage' = "orderer"
                            /\ UNCHANGED <<retCore, retErr, failedAt>>
                       ELSE Fail(LoopError(pairs, out))

\* `default:` of the switch
DiscoveryDefault ==
    /\ log' = Append(log, Info("initializing discovery provider"))
    /\ Fail(ErrUnknownDiscoveryType(config.Discovery.Type))
    /\ UNCHANGED <<config, peerPool, discoveryProvider, err>>

\* `if core.discoveryProvider == nil && core.config != nil { switch ... }`
NewCoreDiscovery ==
    /\ stage = "discovery"
    /\ LET case == IF discoveryProvider = Nil /\ config # Nil
                   THEN DiscoveryCase(config.Discovery.Type) ELSE "none"
       IN IF case = "local" THEN DiscoveryLocal
          ELSE IF case = "gossip" THEN DiscoveryGossip
          ELSE IF case = "default" THEN DiscoveryDefault
          ELSE /\ stage' = "orderer"
               /\ UNCHANGED <<config, peerPool, discoveryProvider, err, retCore, retErr, failedAt, log>>
    /\ UNCHANGED <<cs, identity, fetcher, orderer, opts, applied, identityArg, runVars>>

\* `if core.orderer == nil && core.config != nil { ... }`
NewCoreOrderer ==
    /\ stage = "orderer"
    /\ IF orderer = Nil /\ config # Nil
       THEN IF Len(config.Orderers) > 0
            THEN LET build == Call("util.NewGRPCConnectionFromConfigs", config.Orderers)
                 IN \/ /\ log' = log \o <<Info("initializing orderer"), build>>
                       /\ Fail(Wrap(Errorf("connection failed", <<>>), "failed to initialize orderer connection"))
                       /\ UNCHANGED orderer
                    \/ /\ log' = log \o <<Info("initializing orderer"), build,
                                          Call("orderer.NewFromGRPC", <<>>)>>
                       /\ orderer' = Nil
                       /\ Fail(Wrap(Errorf("orderer failed", <<>>), "failed to initialize orderer"))
                    \/ /\ log' = log \o <<Info("initializing orderer"), build,
                                          Call("orderer.NewFromGRPC", <<>>)>>
                       /\ orderer' = Orderer("core", Conn(config.Orderers))
                       /\ stage' = "fetcher"
                       /\ UNCHANGED <<retCore, retErr, failedAt>>
            ELSE /\ log' = Append(log, Info("initializing orderer"))
                 /\ stage' = "fetcher"
                 /\ UNCHANGED <<orderer, retCore, retErr, failedAt>>
       ELSE /\ stage' = "fetcher"
            /\ UNCHANGED <<orderer, retCore, retErr, failedAt, log>>
    /\ UNCHANGED <<coreVars, discoveryProvider, opts, applied, identityArg, err, runVars>>

\* the default fetcher and `return core, nil`
NewCoreFetcher ==
    /\ stage = "fetcher"
    /\ fetcher' = IF fetcher = Nil THEN DefaultFetcher ELSE fetcher
    /\ retCore' = Core
    /\ retErr' = Nil
    /\ stage' = "returned"
    /\ UNCHANGED failedAt
    /\ UNCHANGED <<config, cs, identity, peerPool, orderer, discoveryProvider, opts,
                   applied, identityArg, err, log, runVars>>

\* =========================================================================
\* Specifications
\* =========================================================================

\* the maps NewCore makes, the zero mutexes, and goroutines that called nothing yet
InitRun ==
    /\ channels = [n \in Names |-> Nil]
    /\ chaincodes = [n \in Names |-> Nil]
    /\ channelMx = Unlocked
    /\ chaincodeMx = Unlocked
    /\ pc = [t \in Threads |-> "idle"]
    /\ op = [t \in Threads |-> "none"]
    /\ name = [t \in Threads |-> "none"]
    /\ discChannel = [t \in Threads |-> Nil]
    /\ grpcConnCfgs = [t \in Threads |-> <<>>]
    /\ ordConn = [t \in Threads |-> Nil]
    /\ ord = [t \in Threads |-> Nil]
    /\ steps = [t \in Threads |-> <<>>]
    /\ ncalls = [t \in Threads |-> 0]
    /\ nextId = 1
    /\ lookups = [n \in Names |-> 0]
    /\ created = [k \in {"Channel", "Chaincode"} \X Names |-> 0]
    /\ returned = [k \in {"Channel", "Chaincode"} \X Names |-> {}]
    /\ resolved = [n \in Names |-> Nil]
    /\ panicked = [k \in {"Channel", "Chaincode"} \X Names |-> FALSE]
    /\ returns = [k \in {"Channel", "Chaincode"} \X Names |-> 0]

\* NewCore is entered with its arguments; the core struct is zero but for the maps
InitNewCore ==
    /\ opts \in SeqsUpTo(OptKinds, MaxOpts)
    /\ identityArg \in {Nil, Identity}
    /\ stage = "options"
    /\ applied = <<>>
    /\ err = Nil
    /\ retCore = Nil
    /\ retErr = Nil
    /\ failedAt = "none"
    /\ log = <<>>
    /\ config = Nil
    /\ cs = Nil
    /\ identity = Nil
    /\ peerPool = Nil
    /\ orderer = Nil
    /\ discoveryProvider = Nil
    /\ fetcher = Nil
    /\ InitRun

NextNewCore ==
    \/ NewCoreOption
    \/ NewCoreDefaults
    \/ NewCoreCryptoSuite
    \/ NewCoreIdentity
    \/ NewCorePeerPool
    \/ NewCoreDiscovery
    \/ NewCoreOrderer
    \/ NewCoreFetcher

SpecNewCore == InitNewCore /\ [][NextNewCore]_vars

\* A Core NewCore returned without error: the one built from the options
\* WithCrypto and WithPeerPool, with or without WithDiscovery and WithOrderer,
\* and no configuration. Channel and Chaincode read no other field than the
\* discovery provider and the default orderer, either of which may be nil.
Init ==
    /\ discoveryProvider \in {Nil, OptionProvider}
    /\ orderer \in {Nil, OptionOrderer}
    /\ applied = <<"WithCrypto", "WithPeerPool">>
                    \o (IF discoveryProvider # Nil THEN <<"WithDiscovery">> ELSE <<>>)
                    \o (IF orderer # Nil THEN <<"WithOrderer">> ELSE <<>>)
    /\ opts = <<>>
    /\ identityArg = Identity
    /\ stage = "returned"
    /\ err = Nil
    /\ retCore = Core
    /\ retErr = Nil
    /\ failedAt = "none"
    /\ log = <<>>
    /\ config = Nil
    /\ cs = OptionSuite
    /\ identity = SigningIdentity(OptionSuite)
    /\ peerPool = OptionPool
    /\ fetcher = DefaultFetcher
    /\ InitRun

Next ==
    \/ \E t \in Threads, n \in Names : ChannelCall(t, n)
    \/ \E t \in Threads : ChannelLock(t)
    \/ \E t \in Threads : ChannelGet(t)
    \/ \E t \in Threads : ChannelDiscovery(t)
    \/ \E t \in Threads : ChannelConnect(t)
    \/ \E t \in Threads : ChannelOrderer(t)
    \/ \E t \in Threads : ChannelNew(t)
    \/ \E t \in Threads, n \in Names : ChaincodeCall(t, n)
    \/ \E t \in Threads : ChaincodeLock(t)
    \/ \E t \in Threads : ChaincodeGet(t)

Spec == Init /\ [][Next]_vars

\* Scheduling: a goroutine that can take its next step inside Channel or
\* Chaincode eventually takes it (every external call returns), and a goroutine
\* blocked in Lock gets the mutex if it is free again and again (sync.Mutex
\* hands the lock to a starving waiter). Nothing obliges a goroutine to start
\* a call.
Fairness ==
    \A t \in Threads :
        /\ SF_vars(ChannelLock(t))
        /\ WF_vars(ChannelGet(t))
        /\ WF_vars(ChannelDiscovery(t))
        /\ WF_vars(ChannelConnect(t))
        /\ WF_vars(ChannelOrderer(t))
        /\ WF_vars(ChannelNew(t))
        /\ SF_vars(ChaincodeLock(t))
        /\ WF_vars(ChaincodeGet(t))

SpecFair == Init /\ [][Next]_vars /\ Fairness


\* =========================================================================
\* Properties of Channel (specification Spec)
\* =========================================================================

\* C1: whatever the interleaving, every call Channel(n) that returns hands out
\* the one handle cached under n, and the discovery provider's Channel lookup
\* is invoked at most once for n.
C1_IdempotentResolution ==
    \A n \in Names :
        /\ lookups[n] <= 1
        /\ Cardinality(returned[<<"Channel", n>>]) <= 1
        /\ \A h \in returned[<<"Channel", n>>] : h = channels[n]

\* two calls Channel(n) have returned, after a single lookup and with one handle
C1_Witness ==
    \E n \in Names :
        /\ returns[<<"Channel", n>>] = 2
        /\ lookups[n] = 1
        /\ returned[<<"Channel", n>>] = {channels[n]}

\* C2: on a Core without discovery provider no call Channel(n) crashes, no
\* discovery lookup is made, and the Channel cached under n is bound to the
\* default orderer.
C2_NoProviderFallback ==
    discoveryProvider = Nil =>
        \A n \in Names :
            /\ ~panicked[<<"Channel", n>>]
            /\ lookups[n] = 0
            /\ channels[n] # Nil => channels[n].orderer = orderer

\* the lookup of the call that resolved n failed, or answered with no orderer
LookupGaveNothing(n) ==
    /\ resolved[n] # Nil
    /\ \/ resolved[n].discChannel.kind = "error"
       \/ /\ resolved[n].discChannel.kind = "channel"
          /\ Len(resolved[n].discChannel.orderers) = 0

\* C3: when the lookup of a cache miss fails (cancellation included) or answers
\* with zero orderer endpoints, the call builds no connection and constructs no
\* orderer, and still returns and caches a Channel bound to the default orderer.
C3_LookupFailureFallback ==
    /\ \A n \in Names :
        LookupGaveNothing(n) =>
            /\ resolved[n].steps = <<"discovery">>
            /\ channels[n] # Nil
            /\ channels[n].orderer = orderer
            /\ channels[n] \in returned[<<"Channel", n>>]
    /\ \A t \in Threads :
        pc[t] \in {"chConnect", "chOrderer"} =>
            /\ discChannel[t].kind = "channel"
            /\ Len(discChannel[t].orderers) > 0

\* a cancelled lookup was answered with a Channel on the default orderer
C3_Witness ==
    \E n \in Names :
        /\ LookupGaveNothing(n)
        /\ resolved[n].discChannel.kind = "error"
        /\ resolved[n].discChannel.err = "context canceled"
        /\ orderer # Nil
        /\ channels[n].orderer = orderer

\* the call that resolved n got orderer endpoints from discovery
LookupGaveOrderers(n) ==
    /\ resolved[n] # Nil
    /\ resolved[n].discChannel.kind = "channel"
    /\ Len(resolved[n].discChannel.orderers) > 0

\* C4: when discovery gave orderer endpoints and the connection build or the
\* orderer construction failed, the Channel is bound to the default orderer.
C4_BuildFailureFallback ==
    \A n \in Names :
        (/\ LookupGaveOrderers(n)
         /\ resolved[n].ordConn = Nil \/ resolved[n].ord = Nil)
            => channels[n].orderer = orderer

\* the addresses of the endpoints before endpoint i
RECURSIVE AddressesBefore(_, _)
AddressesBefore(orderers, i) ==
    IF i <= 1 THEN 0
    ELSE AddressesBefore(orderers, i - 1) + Len(orderers[i - 1].HostAddresses)

\* C5: when discovery gave orderer endpoints with at least one address each and
\* both the connection build and the orderer construction succeeded, the
\* Channel is bound to the orderer just constructed, not to the default, and
\* the one connection it wraps was built from the (address, TLS) pairs of all
\* endpoints, in endpoint order then address order, and from nothing else.
C5_ChannelOrderer ==
    \A n \in Names :
        (/\ LookupGaveOrderers(n)
         /\ \A i \in DOMAIN resolved[n].discChannel.orderers :
                Len(resolved[n].discChannel.orderers[i].HostAddresses) > 0
         /\ resolved[n].ordConn # Nil
         /\ resolved[n].ord # Nil)
            => LET eps == resolved[n].discChannel.orderers
                   bound == channels[n].orderer
               IN /\ bound = resolved[n].ord
                  /\ bound # orderer
                  /\ bound.conn = resolved[n].ordConn
                  /\ resolved[n].steps = <<"discovery", "connect", "orderer">>
                  /\ Len(bound.conn.descs) = AddressesBefore(eps, Len(eps) + 1)
                  /\ \A i \in DOMAIN eps : \A j \in DOMAIN eps[i].HostAddresses :
                        bound.conn.descs[AddressesBefore(eps, i) + j]
                            = [Host |-> eps[i].HostAddresses[j].Address,
                               Tls |-> eps[i].HostAddresses[j].TLSSettings]

\* a Channel bound to an orderer over two endpoints, the first with two addresses
C5_Witness ==
    \E n \in Names :
        /\ LookupGaveOrderers(n)
        /\ Len(resolved[n].discChannel.orderers) = 2
        /\ Len(resolved[n].discChannel.orderers[1].HostAddresses) = 2
        /\ Len(resolved[n].discChannel.orderers[2].HostAddresses) > 0
        /\ resolved[n].ordConn # Nil
        /\ resolved[n].ord # Nil
        /\ channels[n].orderer = resolved[n].ord
        /\ Len(channels[n].orderer.conn.descs) >= 3



\* =========================================================================
\* Properties of the two caches (specification Spec)
\* =========================================================================

\* goroutine t takes a step of Channel / of Chaincode
ChannelStepOf(t) ==
    /\ pc'[t] # pc[t]
    /\ \/ pc[t] \in {"chLock", "chGet", "chDiscovery", "chConnect", "chOrderer", "chNew"}
       \/ pc'[t] = "chLock"
ChaincodeStepOf(t) ==
    /\ pc'[t] # pc[t]
    /\ \/ pc[t] \in {"ccLock", "ccGet"}
       \/ pc'[t] = "ccLock"

\* C11: under any interleaving of Channel and Chaincode calls both caches only
\* grow: a name that is a key of the channel cache or of the chaincode cache
\* stays a key with the same handle, and the handle of a key is constructed at
\* most once.
C11_CachesOnlyGrow ==
    /\ [](\A k \in {"Channel", "Chaincode"} \X Names : created[k] <= 1)
    /\ [][\A n \in Names :
            /\ channels[n] # Nil => channels'[n] = channels[n]
            /\ chaincodes[n] # Nil => chaincodes'[n] = chaincodes[n]]_vars

\* two calls Chaincode(n) returned the handle that was constructed once
C11_Witness ==
    \E n \in Names :
        /\ returns[<<"Chaincode", n>>] = 2
        /\ created[<<"Chaincode", n>>] = 1
        /\ returned[<<"Chaincode", n>>] = {chaincodes[n]}

\* C12: a step of Chaincode leaves the channel cache, its lock and the lookup
\* count unchanged, and hits or misses by the chaincode cache alone; a step of
\* Channel leaves the chaincode cache and its lock unchanged, and hits or
\* misses by the channel cache alone; the chaincode cache holds nothing but
\* ChaincodePackages and the channel cache nothing but Channels, also when one
\* name is used in both.
C12_CacheIsolation ==
    /\ [](\A n \in Names :
            /\ chaincodes[n] # Nil => chaincodes[n].kind = "chaincode"
            /\ channels[n] # Nil => channels[n].kind = "channel")
    /\ [][\A t \in Threads :
            /\ ChaincodeStepOf(t) =>
                /\ UNCHANGED <<channels, channelMx, lookups>>
                /\ pc[t] = "ccGet" =>
                    IF chaincodes[name[t]] = Nil
                    THEN /\ chaincodes'[name[t]] # Nil
                         /\ created'[<<"Chaincode", name[t]>>] = created[<<"Chaincode", name[t]>>] + 1
                    ELSE UNCHANGED <<chaincodes, created>>
            /\ ChannelStepOf(t) =>
                /\ UNCHANGED <<chaincodes, chaincodeMx>>
                /\ pc[t] = "chGet" =>
                    IF channels[name[t]] = Nil
                    THEN pc'[t] = "chDiscovery"
                    ELSE UNCHANGED <<channels, created>>]_vars

\* one name is cached as a Channel and, constructed afterwards, as a
\* ChaincodePackage
C12_Witness ==
    \E n \in Names :
        /\ channels[n] # Nil
        /\ chaincodes[n] # Nil
        /\ channels[n].id < chaincodes[n].id
        /\ created[<<"Channel", n>>] = 1
        /\ created[<<"Chaincode", n>>] = 1

\* goroutine t is between the discovery lookup and the insertion into c.channels
InResolution(t) == pc[t] \in {"chDiscovery", "chConnect", "chOrderer", "chNew"}

\* C16: at any moment at most one goroutine is between the start of a discovery
\* lookup and the insertion of the Channel, whatever the channel names, and it
\* is the one holding channelMx.
C16_ResolutionsSerialized ==
    \A t \in Threads :
        InResolution(t) =>
            /\ channelMx = t
            /\ \A u \in Threads : InResolution(u) => u = t

\* one goroutine builds the connection for a channel while another, asking for
\* a different channel, waits for the lock
C16_Witness ==
    \E t, u \in Threads :
        /\ pc[t] = "chConnect"
        /\ pc[u] = "chLock"
        /\ name[t] # name[u]

\* C19: every ChaincodePackage Chaincode returns is bound to the default
\* orderer, whatever orderer the Channels are bound to, and a goroutine in
\* Chaincode has made no discovery lookup and built no connection.
C19_ChaincodeDefaultOrderer ==
    /\ \A n \in Names : \A h \in returned[<<"Chaincode", n>>] :
        /\ h.kind = "chaincode"
        /\ h.orderer = orderer
    /\ \A t \in Threads :
        op[t] = "Chaincode" =>
            /\ pc[t] \in {"ccLock", "ccGet"}
            /\ steps[t] = <<>>
            /\ discChannel[t] = Nil
            /\ ordConn[t] = Nil

\* a ChaincodePackage on the default orderer, returned after a Channel was
\* bound to an orderer of its own
C19_Witness ==
    \E n, m \in Names :
        /\ orderer # Nil
        /\ channels[m] # Nil
        /\ channels[m].orderer # orderer
        /\ chaincodes[n] \in returned[<<"Chaincode", n>>]
        /\ channels[m].id < chaincodes[n].id
        /\ chaincodes[n].orderer = orderer


\* every connection build NewCore issued was given at least one descriptor
NewCoreBuildsNonEmpty ==
    \A i \in DOMAIN log :
        log[i].call = "util.NewGRPCConnectionFromConfigs" => Len(log[i].arg) >= 1

\* C18: every connection build issued by NewCore or by Channel is given at
\* least one descriptor, also when discovery returns orderer endpoints that
\* carry no addresses.
C18_NoEmptyBuild ==
    /\ NewCoreBuildsNonEmpty
    /\ \A t \in Threads :
        pc[t] = "chOrderer" => Len(grpcConnCfgs[t]) >= 1


\* C20: under fair scheduling, and with every external call returning, every
\* call of Channel and of Chaincode comes to its end; a goroutine that is in
\* no call holds neither lock, whatever path its call took; and a goroutine in
\* Chaincode can always take its step when chaincodeMx allows it, whoever
\* holds channelMx.
C20_CallsComplete ==
    /\ \A t \in Threads : (pc[t] # "idle") ~> (pc[t] = "idle")
    /\ [](\A t \in Threads :
            /\ pc[t] = "idle" => (channelMx # t /\ chaincodeMx # t)
            /\ (pc[t] = "ccLock" /\ chaincodeMx = Unlocked) => ENABLED ChaincodeLock(t)
            /\ pc[t] = "ccGet" => (chaincodeMx = t /\ ENABLED ChaincodeGet(t)))

\* a goroutine is about to return from Chaincode while another one holds
\* channelMx in the middle of a connection build
C20_Witness ==
    \E t, u \in Threads :
        /\ pc[t] = "chConnect"
        /\ channelMx = t
        /\ pc[u] = "ccGet"
        /\ chaincodeMx = u
        /\ ENABLED ChaincodeGet(u)

\* =========================================================================
\* Properties of NewCore (specification SpecNewCore)
\* =========================================================================

\* NewCore has returned
Returned == stage = "returned"

\* NewCore wrote msg to its logger
Logged(msg) ==
    \E i \in DOMAIN log : log[i].call = "logger.Info" /\ log[i].arg = <<msg>>

\* NewCore called collaborator c
Called(c) == \E i \in DOMAIN log : log[i].call = c

\* option o was applied
OptionGiven(o) == \E i \in DOMAIN applied : applied[i] = o

\* a configuration is present, no option gave a discovery provider, and the
\* stages before the discovery stage have passed
DiscoveryFromConfig ==
    /\ Returned
    /\ config # Nil
    /\ ~OptionGiven("WithDiscovery")
    /\ Logged("initializing discovery provider")

\* C6: NewCore returns exactly one of a Core and an error.
C6_CoreXorError ==
    Returned => ((retCore # Nil) # (retErr # Nil))

\* C7: with the Gossip discovery type and no bootstrap connection config,
\* NewCore fails with a non-nil missing-connection error, builds no gossip
\* provider and registers no local peer.
C7_GossipNeedsConnection ==
    (/\ DiscoveryFromConfig
     /\ config.Discovery.Type = GossipServiceDiscoveryType
     /\ config.Discovery.Connection = Nil)
        => /\ retCore = Nil
           /\ retErr # Nil
           /\ ~Called("discovery.NewGossipDiscoveryProvider")
           /\ ~Called("discoveryProvider.LocalPeers")

\* C8 as stated: with a configuration whose discovery type is empty, NewCore
\* does not fail at the discovery stage and the provider stays unset.
C8_EmptyTypeAccepted ==
    (DiscoveryFromConfig /\ config.Discovery.Type = "")
        => /\ failedAt # "discovery"
           /\ discoveryProvider = Nil

\* C8 amended: with a configuration whose discovery type is empty, NewCore
\* fails at the discovery stage with the unknown-discovery-type error and
\* returns no Core; the provider stays unset.
C8_EmptyTypeRejected ==
    (DiscoveryFromConfig /\ config.Discovery.Type = "")
        => /\ failedAt = "discovery"
           /\ retErr = ErrUnknownDiscoveryType("")
           /\ retCore = Nil
           /\ discoveryProvider = Nil

\* NewCore returned from the discovery stage of a configuration without type
C8_Witness ==
    /\ DiscoveryFromConfig
    /\ config.Discovery.Type = ""
    /\ failedAt = "discovery"

\* C9: with a configuration whose discovery type is neither Local nor Gossip
\* and no provider from an option, NewCore returns no Core but an error, and
\* the error of its discovery stage is the unknown-discovery-type error, which
\* names the configured type and both supported types.
C9_UnknownDiscoveryType ==
    (/\ Returned
     /\ config # Nil
     /\ ~OptionGiven("WithDiscovery")
     /\ config.Discovery.Type
            \notin {LocalConfigServiceDiscoveryType, GossipServiceDiscoveryType})
        => /\ retCore = Nil
           /\ retErr # Nil
           /\ Logged("initializing discovery provider") =>
                /\ failedAt = "discovery"
                /\ retErr.msg = "unknown discovery type=%v. available: %v, %v"
                /\ retErr.args = <<config.Discovery.Type, "local", "gossip">>

\* NewCore returned from the discovery stage of a configuration of type consul
C9_Witness ==
    /\ DiscoveryFromConfig
    /\ config.Discovery.Type = "consul"
    /\ retErr # Nil
    /\ retErr.args = <<"consul", "local", "gossip">>

\* C10 as stated: when every option applied and no identity is given, NewCore
\* fails with the missing-identity error, whatever the configuration.
C10_MissingIdentity ==
    (Returned /\ opts = <<>> /\ identityArg = Nil)
        => /\ retCore = Nil
           /\ retErr = ErrMissingIdentity

\* C10 amended: when every option applied, the crypto suite stage passed (the
\* suite came from an option, or from the configuration) and no identity is
\* given, NewCore fails with the missing-identity error and returns no Core.
C10_MissingIdentityAfterCryptoSuite ==
    (Returned /\ opts = <<>> /\ identityArg = Nil /\ cs # Nil)
        => /\ retCore = Nil
           /\ retErr = ErrMissingIdentity
           /\ failedAt = "identity"

\* NewCore without identity returned after taking the suite from the configuration
C10_Witness ==
    /\ Returned
    /\ opts = <<>>
    /\ identityArg = Nil
    /\ config # Nil
    /\ cs # Nil
    /\ Called("crypto.GetSuite")
    /\ failedAt = "identity"

\* C13: NewCore consumes its options in the given order; when an option fails
\* NewCore has returned no Core but that option's error, wrapped, the failing
\* option and those after it have set no field, and no defaulting stage has
\* run: nothing was logged or called, and no identity or fetcher was set.
C13_FirstFailingOption ==
    /\ [][applied' \o opts' = applied \o opts]_vars
    /\ [](failedAt = "options" =>
            /\ stage = "returned"
            /\ opts # <<>>
            /\ retCore = Nil
            /\ retErr = [kind |-> "error", msg |-> "failed to apply option", args |-> <<>>,
                         cause |-> OptionError(Head(opts))]
            /\ log = <<>>
            /\ identity = Nil
            /\ fetcher = Nil
            /\ config # Nil => OptionGiven("WithConfig")
            /\ cs # Nil => OptionGiven("WithCrypto")
            /\ peerPool # Nil => OptionGiven("WithPeerPool")
            /\ discoveryProvider # Nil => OptionGiven("WithDiscovery")
            /\ orderer # Nil => OptionGiven("WithOrderer"))

\* the second of two options failed after the first one was applied
C13_Witness ==
    /\ failedAt = "options"
    /\ Len(applied) = 1
    /\ Len(opts) = 1
    /\ applied[1] # opts[1]
    /\ retErr # Nil

\* the endorsers of the organisations before organisation i
RECURSIVE EndorsersBefore(_, _)
EndorsersBefore(msps, i) ==
    IF i <= 1 THEN 0
    ELSE EndorsersBefore(msps, i - 1) + Len(msps[i - 1].Endorsers)

\* NewCore succeeded with a peer pool of its own and no gossip discovery
PoolFromConfig ==
    /\ Returned
    /\ retCore # Nil
    /\ ~OptionGiven("WithPeerPool")
    /\ discoveryProvider # GossipProvider

\* C14: when NewCore builds the peer pool from the configuration and succeeds
\* without gossip discovery, the pool holds exactly one registration for every
\* configured (organisation, endorser) pair, under that organisation's
\* identifier, and no other registration.
C14_PoolFromConfig ==
    PoolFromConfig =>
        /\ config # Nil
        /\ peerPool.owner = "NewCore"
        /\ Len(peerPool.peers) = EndorsersBefore(config.MSP, Len(config.MSP) + 1)
        /\ \A i \in DOMAIN config.MSP : \A j \in DOMAIN config.MSP[i].Endorsers :
            Cardinality({k \in DOMAIN peerPool.peers :
                            peerPool.peers[k] = [msp |-> config.MSP[i].Name,
                                                 host |-> config.MSP[i].Endorsers[j].Host]}) = 1

\* two organisations with one endorser each gave two registrations
C14_Witness ==
    /\ PoolFromConfig
    /\ Len(config.MSP) = 2
    /\ Len(config.MSP[1].Endorsers) = 1
    /\ Len(config.MSP[2].Endorsers) = 1
    /\ Len(peerPool.peers) = 2
    /\ peerPool.peers[1].msp # peerPool.peers[2].msp

\* C15: when NewCore fails, a peer pool the caller gave through an option has
\* received no registration.
C15_NoPartialPool ==
    (Returned /\ retCore = Nil /\ OptionGiven("WithPeerPool"))
        => peerPool.peers = <<>>

\* ---- the order of the stages
Rank(st) ==
    CASE st = "options" -> 1
      [] st = "cryptoSuite" -> 2
      [] st = "identity" -> 3
      [] st = "peerPool" -> 4
      [] st = "discovery" -> 5
      [] st = "orderer" -> 6
      [] OTHER -> 7

\* the stage that starts with the line msg
MarkerStage(msg) ==
    CASE msg = <<"initializing crypto suite">> -> "cryptoSuite"
      [] msg = <<"initializing peer pool">> -> "peerPool"
      [] msg = <<"initializing discovery provider">> -> "discovery"
      [] msg = <<"initializing orderer">> -> "orderer"

IsMarker(i) == log[i].call = "logger.Info"

\* the stage entry i of the log was made in: that of the last line logged
\* at or before it
StageAt(i) ==
    LET k == CHOOSE m \in 1..i :
                IsMarker(m) /\ \A m2 \in (m + 1)..i : ~IsMarker(m2)
    IN MarkerStage(log[k].arg)

\* the collaborators a stage calls
CallsOf(st) ==
    CASE st = "cryptoSuite" -> {"crypto.GetSuite"}
      [] st = "peerPool" -> {"pool.New", "peer.New", "pool.Add"}
      [] st = "discovery" ->
            {"discovery.NewLocalConfigProvider", "identity.Serialize",
             "tlsMapper.TlsConfigForAddress", "discovery.NewGossipDiscoveryProvider",
             "discoveryProvider.LocalPeers", "peer.New", "pool.Add"}
      [] st = "orderer" -> {"util.NewGRPCConnectionFromConfigs", "orderer.NewFromGRPC"}
      [] OTHER -> {}

\* the errors a stage returns
ErrorsOf(st) ==
    CASE st = "options" -> {"failed to apply option"}
      [] st = "cryptoSuite" -> {"api.ErrEmptyConfig", "failed to initialize crypto suite"}
      [] st = "identity" -> {"identity wasn't provided"}
      [] st = "peerPool" ->
            {"api.ErrEmptyConfig", "failed to initialize endorsers for MSP",
             "failed to add peer to pool"}
      [] st = "discovery" ->
            {"failed to initialize discovery provider", "failed serialize current identity",
             "failed to fetch local peers", "failed to initialize endorsers for MSP",
             "failed to add peer to pool", "unknown discovery type=%v. available: %v, %v"}
      [] st = "orderer" ->
            {"failed to initialize orderer connection", "failed to initialize orderer"}
      [] OTHER -> {}

\* C17: the stages run in the order options, crypto suite, identity, peer
\* pool, discovery provider, orderer, fetcher. What NewCore logged and called
\* is in that order; when it fails, nothing of a stage after the failing one
\* was logged, called or set, and an error it returns is one of the failing
\* stage; and of several stages that would fail the earliest one is the one
\* NewCore returns from.
C17_StageOrder ==
    /\ \A i \in DOMAIN log :
        /\ i = 1 => IsMarker(i)
        /\ ~IsMarker(i) => log[i].call \in CallsOf(StageAt(i))
        /\ \A j \in DOMAIN log :
            (i < j /\ IsMarker(i) /\ IsMarker(j)) => Rank(StageAt(i)) < Rank(StageAt(j))
    /\ failedAt # "none" =>
        /\ Returned
        /\ retCore = Nil
        /\ fetcher = Nil
        /\ \A i \in DOMAIN log : Rank(StageAt(i)) <= Rank(failedAt)
        /\ Rank(failedAt) <= 3 => identity = Nil
        /\ Rank(failedAt) <= 4 => (discoveryProvider # Nil => OptionGiven("WithDiscovery"))
        /\ Rank(failedAt) <= 5 => (orderer # Nil => OptionGiven("WithOrderer"))
        /\ retErr # Nil => retErr.msg \in ErrorsOf(failedAt)
    /\ (Returned /\ opts = <<>>) =>
        /\ (~OptionGiven("WithCrypto") /\ config = Nil) =>
            (failedAt = "cryptoSuite" /\ retErr = ErrEmptyConfig)
        /\ (cs # Nil /\ identityArg = Nil) =>
            (failedAt = "identity" /\ retErr = ErrMissingIdentity)
        /\ (cs # Nil /\ identityArg # Nil /\ ~OptionGiven("WithPeerPool") /\ config = Nil) =>
            (failedAt = "peerPool" /\ retErr = ErrEmptyConfig)
        /\ (/\ cs # Nil /\ identityArg # Nil /\ OptionGiven("WithPeerPool")
            /\ config # Nil /\ ~OptionGiven("WithDiscovery")
            /\ DiscoveryCase(config.Discovery.Type) = "default") =>
            (failedAt = "discovery" /\ retErr = ErrUnknownDiscoveryType(config.Discovery.Type))

\* without identity and without anything to build the peer pool from, NewCore
\* returned from the identity stage
C17_Witness ==
    /\ Returned
    /\ opts = <<>>
    /\ OptionGiven("WithCrypto")
    /\ config = Nil
    /\ identityArg = Nil
    /\ ~OptionGiven("WithPeerPool")
    /\ failedAt = "identity"
    /\ retErr = ErrMissingIdentity

====
